---- MODULE Spec2Model ----
(***************************************************************************)
(* Model of src/fusion/noise_filter.py: the NoiseFilter processor.         *)
(*                                                                         *)
(* A NoiseFilter is constructed once (__init__) and then get_label_mask    *)
(* is called any number of times.  One call is modelled statement by       *)
(* statement; the position inside the call is pc.  The collaborators       *)
(* (LabelConnectedComp, AHNReader, FastGridInterpolator) are not part of   *)
(* the file: each of their answers is a nondeterministic choice between a  *)
(* value of the shape numpy needs and a raised exception.                  *)
(*                                                                         *)
(* Coordinates are fixed-point integers (one unit = the resolution of the  *)
(* model).  A point is represented by its z coordinate: x and y are only   *)
(* handed to the interpolator, whose answer is chosen freely.              *)
(***************************************************************************)
EXTENDS Integers, Sequences, FiniteSets

(* ------------------------------ bounds --------------------------------- *)
MaxN == 2          \* longest point cloud / mask / labels array

ZSet == {-1, 0}                 \* z coordinates of points
GroundSet == {0, 1}             \* interpolated ground heights
EpsSet == {-1, 0, 1}            \* epsilon handed to __init__
OctreeLevels == {0, 9}
SizeSet == {0, 1, 2}            \* min_component_size handed to __init__
LabelIds == {99}
TileCodes == {"t1", "t2"}       \* tile codes a caller may pass
Tiles == {"t1"}                 \* the tiles the elevation reader holds
CompIds == {1, 2}               \* component identifiers (opaque)

SeqsUpTo(S, n) == UNION {[1..k -> S] : k \in 0..n}

(* --------------------------- numpy helpers ----------------------------- *)

\* number of True entries among mask[1..i]
RECURSIVE CountTrue(_, _)
CountTrue(mask, i) ==
    IF i = 0 THEN 0
    ELSE CountTrue(mask, i - 1) + (IF mask[i] THEN 1 ELSE 0)

\* arr[mask] for a boolean mask of the same length: the entries of arr at
\* the True positions of mask, in order
RECURSIVE BoolIndex(_, _)
BoolIndex(arr, mask) ==
    IF Len(mask) = 0 THEN << >>
    ELSE LET n == Len(mask)
             front == BoolIndex(SubSeq(arr, 1, n - 1), SubSeq(mask, 1, n - 1))
         IN  IF mask[n] THEN Append(front, arr[n]) ELSE front

\* np.unique(point_components, return_counts=True): the distinct identifiers
\* and, for each, the number of entries carrying it
Unique(point_components) ==
    {point_components[j] : j \in DOMAIN point_components}

Counts(point_components, c) ==
    Cardinality({j \in DOMAIN point_components : point_components[j] = c})

\* cc_labels[counts < self.min_component_size], with <= instead of <
CcLabelsFilteredLe(point_components, size) ==
    {c \in Unique(point_components) : Counts(point_components, c) <= size}

\* cc_labels[counts < self.min_component_size]
CcLabelsFiltered(point_components, size) ==
    {c \in Unique(point_components) : Counts(point_components, c) < size}

\* np.in1d(point_components, cc_labels_filtered)
In1d(point_components, filtered) ==
    [j \in DOMAIN point_components |-> point_components[j] \in filtered]

\* the ground comparison with <= instead of <
BelowGroundLe(z, tz, eps) == (z - tz) <= -eps

\* the ground comparison without the sign of epsilon
BelowGroundAbs(z, tz, eps) == (z - tz) < eps

\* (points[mask, 2] - target_z) < -self.epsilon, for one masked point
BelowGround(z, tz, eps) == (z - tz) < -eps

\* the two criteria combined with & instead of |
NoiseAnd(sub, comps, filtered, tz, eps) ==
    [j \in DOMAIN sub |->
        In1d(comps, filtered)[j] /\ BelowGround(sub[j], tz[j], eps)]

\* np.in1d(...) | ((points[mask, 2] - target_z) < -self.epsilon)
Noise(sub, comps, filtered, tz, eps) ==
    [j \in DOMAIN sub |->
        In1d(comps, filtered)[j] \/ BelowGround(sub[j], tz[j], eps)]

\* a scatter into an array that starts all True
ScatterOnes(n, mask, vals) ==
    [i \in 1..n |-> IF mask[i] THEN vals[CountTrue(mask, i)] ELSE TRUE]

\* label_mask = np.zeros((n,), dtype=bool); label_mask[mask] = vals
Scatter(n, mask, vals) ==
    [i \in 1..n |-> IF mask[i] THEN vals[CountTrue(mask, i)] ELSE FALSE]

\* the whole decision of get_label_mask as a function of its inputs and of
\* the collaborators' answers
LabelMask(pts, msk, comps, tz, eps, size) ==
    Scatter(Len(pts), msk,
            Noise(BoolIndex(pts, msk), comps, CcLabelsFiltered(comps, size),
                  tz, eps))

(* ------------------------------- state --------------------------------- *)
VARIABLES
    pc,                  \* position: "new", "idle", the statements of
                         \* get_label_mask, "done", "failed"
    args,                \* the arguments given to __init__
    label, epsilon, octree_level, min_component_size,   \* self.*
    points, labels, mask, tilecode,                     \* call arguments
    point_components,    \* line 62
    cc_labels_filtered,  \* line 67
    target_z,            \* line 73
    label_mask,          \* line 75
    result,              \* the returned array (meaningful when pc = "done")
    error,               \* the exception that ended the call, or "none"
    events               \* collaborator calls and log records of this call

vars == <<pc, args, label, epsilon, octree_level, min_component_size,
          points, labels, mask, tilecode, point_components,
          cc_labels_filtered, target_z, label_mask, result, error, events>>

config == <<args, label, epsilon, octree_level, min_component_size>>
callArgs == <<points, labels, mask, tilecode>>
locals == <<point_components, cc_labels_filtered, target_z, label_mask>>

Init ==
    /\ pc = "new"
    /\ args \in [label : LabelIds, epsilon : EpsSet,
                 octree_level : OctreeLevels, min_component_size : SizeSet]
    /\ label = 0 /\ epsilon = 0 /\ octree_level = 0 /\ min_component_size = 0
    /\ points = << >> /\ labels = << >> /\ mask = << >> /\ tilecode = "t1"
    /\ point_components = << >> /\ cc_labels_filtered = {}
    /\ target_z = << >> /\ label_mask = << >>
    /\ result = << >> /\ error = "none" /\ events = << >>

(* ------------------------------ __init__ ------------------------------- *)

\* a constructor that validates its parameters
ConstructValidating ==
    /\ pc = "new"
    /\ IF args.epsilon < 0 \/ args.octree_level <= 0
          \/ args.min_component_size <= 0
       THEN /\ pc' = "rejected"
            /\ error' = "ConfigurationError"
            /\ UNCHANGED <<label, epsilon, octree_level, min_component_size>>
       ELSE /\ pc' = "idle"
            /\ label' = args.label
            /\ epsilon' = args.epsilon
            /\ octree_level' = args.octree_level
            /\ min_component_size' = args.min_component_size
            /\ UNCHANGED error
    /\ UNCHANGED <<args, callArgs, locals, result, events>>

\* __init__: the four parameters are stored as given, nothing is checked
Construct ==
    /\ pc = "new"
    /\ pc' = "idle"
    /\ label' = args.label
    /\ epsilon' = args.epsilon
    /\ octree_level' = args.octree_level
    /\ min_component_size' = args.min_component_size
    /\ UNCHANGED <<args, callArgs, locals, result, error, events>>

(* --------------------------- get_label_mask ---------------------------- *)

\* the caller enters get_label_mask(points, labels, mask, tilecode)
Call ==
    /\ pc = "idle"
    /\ \E pts \in SeqsUpTo(ZSet, MaxN), lbs \in SeqsUpTo(LabelIds, MaxN),
          msk \in SeqsUpTo(BOOLEAN, MaxN), tc \in TileCodes :
          /\ points' = pts
          /\ labels' = lbs
          /\ mask' = msk
          /\ tilecode' = tc
    /\ pc' = "lcc"
    /\ UNCHANGED <<config, locals, result, error, events>>

\* lines 60-62 preceded by an early return for an empty selection
GetComponentsShortCircuit ==
    /\ pc = "lcc"
    /\ IF Len(mask) # Len(points)
       THEN /\ pc' = "failed"
            /\ error' = "IndexError"
            /\ events' = events \o <<"LabelConnectedComp">>
            /\ UNCHANGED <<point_components, label_mask>>
       ELSE IF Len(BoolIndex(points, mask)) = 0
       THEN /\ pc' = "return"
            /\ label_mask' = [i \in 1..Len(points) |-> FALSE]
            /\ UNCHANGED <<point_components, error, events>>
       ELSE \/ /\ \E comps \in [1..Len(BoolIndex(points, mask)) -> CompIds] :
                     point_components' = comps
               /\ pc' = "unique"
               /\ events' = events \o <<"LabelConnectedComp", "get_components">>
               /\ UNCHANGED <<error, label_mask>>
            \/ /\ pc' = "failed"
               /\ error' = "ClusterError"
               /\ events' = events \o <<"LabelConnectedComp", "get_components">>
               /\ UNCHANGED <<point_components, label_mask>>
    /\ UNCHANGED <<config, callArgs, cc_labels_filtered, target_z, result>>

\* lines 60-62 with a length check that also covers labels
GetComponentsChecked ==
    /\ pc = "lcc"
    /\ IF Len(mask) # Len(points) \/ Len(labels) # Len(points)
       THEN /\ pc' = "failed"
            /\ error' = "IndexError"
            /\ events' = events \o <<"LabelConnectedComp">>
            /\ UNCHANGED point_components
       ELSE \/ /\ \E comps \in [1..Len(BoolIndex(points, mask)) -> CompIds] :
                     point_components' = comps
               /\ pc' = "unique"
               /\ events' = events \o <<"LabelConnectedComp", "get_components">>
               /\ UNCHANGED error
            \/ /\ pc' = "failed"
               /\ error' = "ClusterError"
               /\ events' = events \o <<"LabelConnectedComp", "get_components">>
               /\ UNCHANGED point_components
    /\ UNCHANGED <<config, callArgs, cc_labels_filtered, target_z, label_mask,
                   result>>

\* lines 60-62: the LabelConnectedComp object is built, points[mask] is
\* taken (numpy raises IndexError when the boolean mask and the array differ
\* in length) and get_components answers with one identifier per masked
\* point, or raises
GetComponents ==
    /\ pc = "lcc"
    /\ IF Len(mask) # Len(points)
       THEN /\ pc' = "failed"
            /\ error' = "IndexError"
            /\ events' = events \o <<"LabelConnectedComp">>
            /\ UNCHANGED point_components
       ELSE \/ /\ \E comps \in [1..Len(BoolIndex(points, mask)) -> CompIds] :
                     point_components' = comps
               /\ pc' = "unique"
               /\ events' = events \o <<"LabelConnectedComp", "get_components">>
               /\ UNCHANGED error
            \/ /\ pc' = "failed"
               /\ error' = "ClusterError"
               /\ events' = events \o <<"LabelConnectedComp", "get_components">>
               /\ UNCHANGED point_components
    /\ UNCHANGED <<config, callArgs, cc_labels_filtered, target_z, label_mask,
                   result>>

\* lines 64-67: the identifiers of the components below the size threshold
FilterSmall ==
    /\ pc = "unique"
    /\ cc_labels_filtered' =
           CcLabelsFiltered(point_components, min_component_size)
    /\ pc' = "tile"
    /\ UNCHANGED <<config, callArgs, point_components, target_z, label_mask,
                   result, error, events>>

\* lines 70-71 where a missing tile yields an all-False answer
FilterTileSwallow ==
    /\ pc = "tile"
    /\ events' = Append(events, "filter_tile")
    /\ IF tilecode \in Tiles
       THEN pc' = "interp" /\ UNCHANGED result
       ELSE pc' = "done" /\ result' = [i \in 1..Len(points) |-> FALSE]
    /\ UNCHANGED <<config, callArgs, locals, error>>

\* lines 70-71: the reader hands out the tile of tilecode, or signals that
\* it has none; the exception is not caught
FilterTile ==
    /\ pc = "tile"
    /\ events' = Append(events, "filter_tile")
    /\ IF tilecode \in Tiles
       THEN pc' = "interp" /\ UNCHANGED error
       ELSE pc' = "failed" /\ error' = "TileNotFoundError"
    /\ UNCHANGED <<config, callArgs, locals, result>>

\* line 72: the interpolator is built from the tile
NewInterpolator ==
    /\ pc = "interp"
    /\ events' = Append(events, "FastGridInterpolator")
    /\ \/ /\ pc' = "eval" /\ UNCHANGED error
       \/ /\ pc' = "failed" /\ error' = "InterpolationError"
    /\ UNCHANGED <<config, callArgs, locals, result>>

\* line 73 with the interpolator evaluated a second time
EvaluateTwice ==
    /\ pc = "eval"
    /\ events' = events \o <<"evaluate", "evaluate">>
    /\ \/ /\ \E tz \in [1..Len(BoolIndex(points, mask)) -> GroundSet] :
                target_z' = tz
          /\ pc' = "scatter"
          /\ UNCHANGED error
       \/ /\ pc' = "failed" /\ error' = "InterpolationError"
          /\ UNCHANGED target_z
    /\ UNCHANGED <<config, callArgs, point_components, cc_labels_filtered,
                   label_mask, result>>

\* line 73: one ground height per masked point, or an exception
Evaluate ==
    /\ pc = "eval"
    /\ events' = Append(events, "evaluate")
    /\ \/ /\ \E tz \in [1..Len(BoolIndex(points, mask)) -> GroundSet] :
                target_z' = tz
          /\ pc' = "scatter"
          /\ UNCHANGED error
       \/ /\ pc' = "failed" /\ error' = "InterpolationError"
          /\ UNCHANGED target_z
    /\ UNCHANGED <<config, callArgs, point_components, cc_labels_filtered,
                   label_mask, result>>

\* lines 75-78
ScatterNoise ==
    /\ pc = "scatter"
    /\ label_mask' =
           Scatter(Len(points), mask,
                   Noise(BoolIndex(points, mask), point_components,
                         cc_labels_filtered, target_z, epsilon))
    /\ events' = Append(events, "scatter")
    /\ pc' = "log"
    /\ UNCHANGED <<config, callArgs, point_components, cc_labels_filtered,
                   target_z, result, error>>

\* lines 80-81: the progress line naming the label
Log ==
    /\ pc = "log"
    /\ events' = Append(events, "log")
    /\ pc' = "return"
    /\ UNCHANGED <<config, callArgs, locals, result, error>>

\* line 83
Return ==
    /\ pc = "return"
    /\ result' = label_mask
    /\ pc' = "done"
    /\ UNCHANGED <<config, callArgs, locals, error, events>>

\* the call is over (returned or raised); the object is ready for the next
\* call and keeps nothing but its configuration
NextCall ==
    /\ pc \in {"done", "failed"}
    /\ pc' = "idle"
    /\ points' = << >> /\ labels' = << >> /\ mask' = << >>
    /\ tilecode' = "t1"
    /\ point_components' = << >> /\ cc_labels_filtered' = {}
    /\ target_z' = << >> /\ label_mask' = << >>
    /\ result' = << >> /\ error' = "none" /\ events' = << >>
    /\ UNCHANGED config

Next ==
    \/ Construct
    \/ Call
    \/ GetComponents
    \/ FilterSmall
    \/ FilterTile
    \/ NewInterpolator
    \/ Evaluate
    \/ ScatterNoise
    \/ Log
    \/ Return
    \/ NextCall

Spec == Init /\ [][Next]_vars

(* ------------------------- properties: helpers ------------------------- *)

\* i is a masked index and it is the j-th True position of mask
IsJthMasked(i, j) ==
    /\ i \in DOMAIN mask
    /\ mask[i]
    /\ Cardinality({k \in 1..i : mask[k]}) = j

\* number of masked points that carry the identifier of the j-th one
MemberCount(j) ==
    Cardinality({k \in DOMAIN point_components :
                    point_components[k] = point_components[j]})

MaskAllFalse == Len(mask) = Len(points) /\ \A i \in DOMAIN mask : ~mask[i]
SomeMasked == Len(mask) = Len(points) /\ \E i \in DOMAIN mask : mask[i]

Occurrences(e) == Cardinality({k \in DOMAIN events : events[k] = e})

FullTrace == <<"LabelConnectedComp", "get_components", "filter_tile",
               "FastGridInterpolator", "evaluate", "scatter", "log">>

InCall == pc \notin {"new", "idle"}
PastIndexing == pc \notin {"new", "idle", "lcc"}
PastTileFetch == Occurrences("filter_tile") > 0
PastFilterSmall == pc \in {"tile", "interp", "eval", "scatter", "log",
                           "return", "done"}

(* ------------------------------- claims -------------------------------- *)

\* C1: a call that returns yields a boolean array of exactly len(points)
\* entries (and its mask had that length too), and no entry is True where
\* mask is False.
C1_MaskingInvariant ==
    pc = "done" =>
        /\ Len(mask) = Len(points)
        /\ DOMAIN result = 1..Len(points)
        /\ \A i \in DOMAIN result :
              result[i] \in BOOLEAN /\ (result[i] => mask[i])

\* C1 witness: a returned array that flags a point and leaves an unmasked
\* point unflagged.
C1_Witness ==
    /\ pc = "done"
    /\ \E i \in DOMAIN result : result[i]
    /\ \E i \in DOMAIN mask : ~mask[i]

\* C2: for the j-th masked index i the returned entry is exactly
\* (component of j is small) OR (point i lies more than epsilon below
\* target_z[j]); the j-th answers are written to position i and nowhere else.
C2_Fusion ==
    pc = "done" =>
        \A i \in DOMAIN points : \A j \in DOMAIN point_components :
            IsJthMasked(i, j) =>
                (result[i] <=>
                    \/ MemberCount(j) < min_component_size
                    \/ points[i] - target_z[j] < -epsilon)

\* C2 witness: a masked point that is not at its own rank (an unmasked point
\* precedes it) is flagged by exactly one of the two criteria.
C2_Witness ==
    /\ pc = "done"
    /\ \E i \in DOMAIN points : \E j \in DOMAIN point_components :
          /\ IsJthMasked(i, j)
          /\ i # j
          /\ result[i]
          /\ (MemberCount(j) < min_component_size)
                # (points[i] - target_z[j] < -epsilon)

\* C3 (as claimed): with an all-False mask neither collaborator is invoked.
C3_ShortCircuit ==
    (InCall /\ MaskAllFalse) =>
        /\ Occurrences("get_components") = 0
        /\ Occurrences("FastGridInterpolator") = 0
        /\ Occurrences("evaluate") = 0

\* C3 (amended): with an all-False mask a call that returns yields an
\* all-False array of len(points) entries, and the collaborators were invoked
\* exactly as for any other mask: get_components once, the tile fetched once,
\* the interpolator built and evaluated once.
C3_EmptyMaskStillDelegates ==
    (pc = "done" /\ MaskAllFalse) =>
        /\ result = [i \in 1..Len(points) |-> FALSE]
        /\ events = FullTrace

\* C3 witness: a call on a non-empty cloud with an all-False mask returned.
C3_Witness ==
    pc = "done" /\ MaskAllFalse /\ Len(points) > 0

\* C4 (as claimed): parameters with epsilon < 0, octree_level <= 0 or
\* min_component_size <= 0 are rejected with ConfigurationError, all others
\* are accepted.
C4_ConstructionValidates ==
    pc # "new" =>
        IF args.epsilon < 0 \/ args.octree_level <= 0
              \/ args.min_component_size <= 0
        THEN pc = "rejected" /\ error = "ConfigurationError"
        ELSE pc # "rejected" /\ error # "ConfigurationError"

\* C4 (amended): construction succeeds for every epsilon, octree_level and
\* min_component_size and stores them unchanged; no ConfigurationError is
\* ever raised.
C4_ConstructionAcceptsAll ==
    pc # "new" =>
        /\ pc # "rejected"
        /\ error # "ConfigurationError"
        /\ label = args.label
        /\ epsilon = args.epsilon
        /\ octree_level = args.octree_level
        /\ min_component_size = args.min_component_size

\* C4 witness: a classifier built with epsilon < 0, octree_level <= 0 and
\* min_component_size <= 0 has completed a call.
C4_Witness ==
    /\ pc = "done"
    /\ epsilon < 0 /\ octree_level <= 0 /\ min_component_size <= 0
    /\ Len(points) > 0

C6_AllOrNothing ==
    /\ (PastTileFetch /\ tilecode \notin Tiles) =>
          /\ pc = "failed" /\ error = "TileNotFoundError"
          /\ result = << >> /\ label_mask = << >>
    /\ pc = "failed" => (error # "none" /\ result = << >>)
    /\ pc = "done" => (error = "none" /\ DOMAIN result = 1..Len(points))
    /\ \A e \in {"get_components", "filter_tile", "FastGridInterpolator",
                 "evaluate"} : Occurrences(e) <= 1

\* C6 witness: a call with masked points failed on a missing tile.
C6_Witness ==
    /\ pc = "failed" /\ error = "TileNotFoundError"
    /\ tilecode \notin Tiles
    /\ SomeMasked

\* C7: a component identifier is among the small ones iff strictly fewer
\* than min_component_size masked points carry it (exactly
\* min_component_size: not small); points with one identifier share the
\* verdict; in the returned array a point of a small component is flagged
\* and a point of a component that is not small is flagged only when it is
\* below ground.
C7_StrictSizeThreshold ==
    /\ PastFilterSmall =>
          \A j \in DOMAIN point_components :
              /\ MemberCount(j) = min_component_size =>
                    point_components[j] \notin cc_labels_filtered
              /\ MemberCount(j) <= min_component_size - 1 =>
                    point_components[j] \in cc_labels_filtered
              /\ MemberCount(j) > min_component_size =>
                    point_components[j] \notin cc_labels_filtered
    /\ pc = "done" =>
          \A i \in DOMAIN points : \A j \in DOMAIN point_components :
              IsJthMasked(i, j) =>
                  /\ MemberCount(j) < min_component_size => result[i]
                  /\ (MemberCount(j) >= min_component_size
                         /\ ~(points[i] - target_z[j] < -epsilon))
                        => ~result[i]
                  /\ \A i2 \in DOMAIN points :
                       \A j2 \in DOMAIN point_components :
                        (IsJthMasked(i2, j2)
                            /\ point_components[j2] = point_components[j]
                            /\ ~(points[i] - target_z[j] < -epsilon)
                            /\ ~(points[i2] - target_z[j2] < -epsilon))
                           => (result[i2] = result[i])

\* C7 witness: a returned call holds a component of exactly
\* min_component_size > 1 points, and a point of it is not flagged.
C7_Witness ==
    /\ pc = "done"
    /\ min_component_size > 1
    /\ \E i \in DOMAIN points : \E j \in DOMAIN point_components :
          /\ IsJthMasked(i, j)
          /\ MemberCount(j) = min_component_size
          /\ ~result[i]

\* C8: for a masked point whose component is not small the returned entry is
\* True exactly when z - target_z < -epsilon: a point exactly epsilon below
\* the ground, less than epsilon below it or above it is not flagged.
C8_StrictGroundThreshold ==
    pc = "done" =>
        \A i \in DOMAIN points : \A j \in DOMAIN point_components :
            (IsJthMasked(i, j)
                /\ point_components[j] \notin cc_labels_filtered) =>
                /\ points[i] - target_z[j] = -epsilon => ~result[i]
                /\ points[i] - target_z[j] > -epsilon => ~result[i]
                /\ points[i] - target_z[j] < -epsilon => result[i]

\* C8 witness: a masked point of a component that is not small lies exactly
\* epsilon > 0 below the ground, and the call returned.
C8_Witness ==
    /\ pc = "done"
    /\ epsilon > 0
    /\ \E i \in DOMAIN points : \E j \in DOMAIN point_components :
          /\ IsJthMasked(i, j)
          /\ point_components[j] \notin cc_labels_filtered
          /\ points[i] - target_z[j] = -epsilon
          /\ ~result[i]

\* C9: with points, mask, component assignment and ground heights of the
\* call held fixed, for any e1 <= e2 every masked point below ground under
\* e2 is below ground under e1, and every entry flagged in the array computed
\* with e2 is flagged in the array computed with e1; the array the call
\* returns is the one computed with its own epsilon.
C9_EpsilonMonotone ==
    pc = "done" =>
        /\ result = LabelMask(points, mask, point_components, target_z,
                              epsilon, min_component_size)
        /\ \A e1 \in EpsSet : \A e2 \in EpsSet :
              e1 <= e2 =>
                /\ \A j \in DOMAIN target_z :
                      BelowGround(BoolIndex(points, mask)[j], target_z[j], e2)
                         => BelowGround(BoolIndex(points, mask)[j],
                                        target_z[j], e1)
                /\ \A i \in DOMAIN points :
                      LabelMask(points, mask, point_components, target_z,
                                e2, min_component_size)[i]
                         => LabelMask(points, mask, point_components,
                                      target_z, e1, min_component_size)[i]

\* C9 witness: a returned call in which a larger epsilon would flag strictly
\* fewer points than the epsilon of the call.
C9_Witness ==
    /\ pc = "done"
    /\ \E e2 \in EpsSet : \E i \in DOMAIN points :
          /\ epsilon < e2
          /\ result[i]
          /\ ~LabelMask(points, mask, point_components, target_z,
                        e2, min_component_size)[i]

\* C10: in a call with at least one masked point the events so far are a
\* prefix of: get_components, tile fetch, interpolator built, interpolator
\* evaluated, scatter, log; a returned call has all of them, each once; a
\* tile-not-found failure comes after get_components; a failed call has
\* emitted no log record.
C10_CallOrder ==
    (InCall /\ SomeMasked) =>
        /\ Len(events) <= Len(FullTrace)
        /\ events = SubSeq(FullTrace, 1, Len(events))
        /\ pc = "done" => events = FullTrace
        /\ error = "TileNotFoundError" =>
              events = SubSeq(FullTrace, 1, 3)
        /\ pc = "failed" => Occurrences("log") = 0

\* C10 witness: a call with a masked point has returned after all events.
C10_Witness ==
    pc = "done" /\ SomeMasked /\ Len(events) = 7

====
